---- MODULE Spec2Model ----
(* Model of the fixed-capacity Merkle tree of merkle_tree_fixed/src/tree.rs:  *)
(* the flat digest storage, set_at with its recursive ancestor update,       *)
(* proof generation and the stateless verify.                                *)
(*                                                                           *)
(* A usize that the model handles is either small or within a few units of   *)
(* 2^64.  It is written as an integer v: v >= 0 stands for v itself, v < 0   *)
(* stands for 2^64 + v.  Parity is preserved ((2^64 + v) % 2 = v % 2), and   *)
(* an addition a + b with a < 0 <= b overflows the 64-bit word exactly when  *)
(* a + b >= 0, in which case a + b is the wrapped result.                    *)
EXTENDS Integers, Sequences, FiniteSets, TLC

VARIABLES
    status,           \* "none": no tree yet, "live": a tree exists, "aborted": the process is gone
    overflow_checks,  \* build profile: TRUE = arithmetic overflow panics, FALSE = it wraps
    hasher,           \* the Hasher captured by the tree
    nodes,            \* Nodes.0, the Vec of digests; position p is nodes[p + 1]
    assigned,         \* history: per leaf, the last item a completed set_at stored there
    fresh,            \* history: every completed set_at so far wrote a leaf not written before
    last              \* the last call: its arguments and its outcome

vars == <<status, overflow_checks, hasher, nodes, assigned, fresh, last>>

\* Largest leaf count and item count handed to new / from_iter.
MaxLeafCount == 4

\* Indices near the top of the usize range: 2^64 - TopIndices .. 2^64 - 1.
TopIndices == 2

\* Items handed to set_at and from_iter: "a", "ab".
Items == {<<97>>, <<97, 98>>}

\* Items handed to verify: those, and "ba".
VerifyItems == Items \cup {<<98, 97>>}

\* Hashers handed to new: the CRC-8/DARC checksum of the tests, and the
\* identity function (injective on all byte strings).
Hashers == {"crc8", "id"}

\* Indices handed to set_at and proof.
Indices == (0 - TopIndices)..MaxLeafCount

-----------------------------------------------------------------------------
\* Bit operations on naturals.

RECURSIVE BitAnd(_, _)
BitAnd(a, b) ==
    IF a = 0 \/ b = 0 THEN 0
    ELSE (IF a % 2 = 1 /\ b % 2 = 1 THEN 1 ELSE 0) + 2 * BitAnd(a \div 2, b \div 2)

RECURSIVE BitXor(_, _)
BitXor(a, b) ==
    IF a = 0 THEN b
    ELSE IF b = 0 THEN a
    ELSE (((a % 2) + (b % 2)) % 2) + 2 * BitXor(a \div 2, b \div 2)

\* CRC-8/DARC: width 8, poly 0x39, init 0, reflected in and out, xorout 0.
\* 0x9C is 0x39 bit-reversed.
Crc8Poly == 156

RECURSIVE Crc8Bits(_, _)
Crc8Bits(crc, n) ==
    IF n = 0 THEN crc
    ELSE Crc8Bits(IF crc % 2 = 1 THEN BitXor(crc \div 2, Crc8Poly) ELSE crc \div 2, n - 1)

\* The byte-wise lookup table of the checksum.
Crc8Table == [b \in 0..255 |-> Crc8Bits(b, 8)]

RECURSIVE Crc8Update(_, _)
Crc8Update(crc, data) ==
    IF data = <<>> THEN crc
    ELSE Crc8Update(Crc8Table[BitXor(crc, Head(data))], Tail(data))

\* tests::hasher
crc8_hasher(data) == <<Crc8Update(0, data)>>

\* |data| data.to_vec()
id_hasher(data) == data

\* (self.hasher)(data)
Hash(h, data) == IF h = "crc8" THEN crc8_hasher(data) ELSE id_hasher(data)

-----------------------------------------------------------------------------
\* NodeIndex and the index arithmetic.

is_root(node_index) == node_index = 1

is_left(node_index) == node_index % 2 = 0

parent_index(node_index) ==
    IF is_left(node_index) THEN node_index \div 2 ELSE (node_index - 1) \div 2

sibling_index(node_index) ==
    IF is_left(node_index) THEN node_index + 1 ELSE node_index - 1

is_power_of_two(n) == IF n = 0 THEN FALSE ELSE BitAnd(n, n - 1) = 0

\* a + b on usize, a possibly near 2^64, b small.
usize_add(a, b) ==
    IF a < 0 /\ a + b >= 0
    THEN [overflow |-> TRUE, value |-> a + b]
    ELSE [overflow |-> FALSE, value |-> a + b]

-----------------------------------------------------------------------------
\* Nodes.

Placeholder == <<0>>

Nodes_new(leaf_count) == [p \in 1..(leaf_count * 2) |-> Placeholder]

\* The bounds check of self.0[index].
InBounds(ns, index) == index >= 0 /\ index < Len(ns)

Nodes_at(ns, index) == ns[index + 1]

Nodes_set_at(ns, index, data) == [ns EXCEPT ![index + 1] = data]

Nodes_len(ns) == Len(ns)

-----------------------------------------------------------------------------
\* MerkleTree.

leaf_count(ns) == Nodes_len(ns) \div 2

root(ns) == Nodes_at(ns, 1)

concat(one, two) == one \o two

\* A to_node_index that is off by one.
to_node_index_off_by_one(ns, index, checks) ==
    LET s == usize_add(index, leaf_count(ns) - 1)
    IN  [panic |-> s.overflow /\ checks, value |-> s.value]

\* index + self.leaf_count(): panics on overflow when the build checks it,
\* wraps otherwise.
to_node_index(ns, index, checks) ==
    LET s == usize_add(index, leaf_count(ns))
    IN  [panic |-> s.overflow /\ checks, value |-> s.value]

\* A hash_recursive that concatenates current-then-sibling whatever the side.
RECURSIVE hash_recursive_unordered(_, _, _)
hash_recursive_unordered(h, ns, node_index) ==
    LET cc      == concat(Nodes_at(ns, node_index), Nodes_at(ns, sibling_index(node_index)))
        parent  == parent_index(node_index)
        written == Nodes_set_at(ns, parent, Hash(h, cc))
    IN  IF is_root(parent)
        THEN [nodes |-> written, steps |-> 1, returned |-> TRUE]
        ELSE IF parent = node_index
        THEN [nodes |-> written, steps |-> 1, returned |-> FALSE]
        ELSE LET r == hash_recursive_unordered(h, written, parent)
             IN  [r EXCEPT !.steps = @ + 1]

\* One call of hash_recursive and the calls it makes.  returned = FALSE: the
\* call re-enters itself on the node it was called on (parent_index(0) = 0),
\* so the recursion has no end.
RECURSIVE hash_recursive(_, _, _)
hash_recursive(h, ns, node_index) ==
    LET current_hash == Nodes_at(ns, node_index)
        sibling      == sibling_index(node_index)
        sibling_hash == Nodes_at(ns, sibling)
        cc           == IF is_left(node_index)
                        THEN concat(current_hash, sibling_hash)
                        ELSE concat(sibling_hash, current_hash)
        parent_hash  == Hash(h, cc)
        parent       == parent_index(node_index)
        written      == Nodes_set_at(ns, parent, parent_hash)
    IN  IF is_root(parent)
        THEN [nodes |-> written, steps |-> 1, returned |-> TRUE]
        ELSE IF parent = node_index
        THEN [nodes |-> written, steps |-> 1, returned |-> FALSE]
        ELSE LET r == hash_recursive(h, written, parent)
             IN  [r EXCEPT !.steps = @ + 1]

\* set_at as a function of the tree: outcome "ok" (returned), "panic"
\* (unwound before any write) or "diverged" (never returns).
set_at(h, ns, checks, item_index, item) ==
    LET ni == to_node_index(ns, item_index, checks)
    IN  IF ni.panic \/ ~InBounds(ns, ni.value)
        THEN [outcome |-> "panic", nodes |-> ns, steps |-> 0]
        ELSE LET my_hash == Hash(h, item)
                 r == hash_recursive(h, Nodes_set_at(ns, ni.value, my_hash), ni.value)
             IN  [outcome |-> IF r.returned THEN "ok" ELSE "diverged",
                  nodes |-> r.nodes, steps |-> r.steps]

\* nodes(): self.nodes.0.iter().skip(1)
nodes_iter(ns) == SubSeq(ns, 2, Len(ns))

\* leaves(): self.nodes.0.iter().skip(self.leaf_count())
leaves(ns) == SubSeq(ns, leaf_count(ns) + 1, Len(ns))

\* Location
Left == "Left"
Right == "Right"

\* ProofStep::new
ProofStep(hash, direction) == [hash |-> hash, direction |-> direction]

\* A proof_recursive that names the side of the node, not of the sibling.
RECURSIVE proof_recursive_swapped(_, _)
proof_recursive_swapped(ns, node_index) ==
    IF is_root(node_index)
    THEN [outcome |-> "ok", proof |-> <<>>]
    ELSE IF ~InBounds(ns, sibling_index(node_index))
    THEN [outcome |-> "panic", proof |-> <<>>]
    ELSE IF parent_index(node_index) = node_index
    THEN [outcome |-> "diverged", proof |-> <<>>]
    ELSE LET step == [hash |-> Nodes_at(ns, sibling_index(node_index)),
                      direction |-> IF is_left(node_index) THEN "Left" ELSE "Right"]
             r == proof_recursive_swapped(ns, parent_index(node_index))
         IN  [r EXCEPT !.proof = IF r.outcome = "ok" THEN <<step>> \o @ ELSE <<>>]

\* proof_recursive: the steps it pushes, or a panic on the bounds check of
\* the sibling read, or no return.
RECURSIVE proof_recursive(_, _)
proof_recursive(ns, node_index) ==
    IF is_root(node_index)
    THEN [outcome |-> "ok", proof |-> <<>>]
    ELSE IF ~InBounds(ns, sibling_index(node_index))
    THEN [outcome |-> "panic", proof |-> <<>>]
    ELSE IF parent_index(node_index) = node_index
    THEN [outcome |-> "diverged", proof |-> <<>>]
    ELSE LET step == ProofStep(Nodes_at(ns, sibling_index(node_index)),
                               IF is_left(node_index) THEN Right ELSE Left)
             r == proof_recursive(ns, parent_index(node_index))
         IN  [r EXCEPT !.proof = IF r.outcome = "ok" THEN <<step>> \o @ ELSE <<>>]

proof(ns, checks, index) ==
    LET ni == to_node_index(ns, index, checks)
    IN  IF ni.panic
        THEN [outcome |-> "panic", proof |-> <<>>]
        ELSE proof_recursive(ns, ni.value)

RECURSIVE verify_fold(_, _, _)
verify_fold(h, my_hash, steps) ==
    IF steps = <<>> THEN my_hash
    ELSE LET step == Head(steps)
             cc == IF step.direction = Left
                   THEN concat(my_hash, step.hash)
                   ELSE concat(step.hash, my_hash)
         IN  verify_fold(h, Hash(h, cc), Tail(steps))

verify(prf, item, h) == verify_fold(h, Hash(h, item), prf)

\* from_iter's for_each over the enumerated items, from item `index` on.
RECURSIVE from_iter_loop(_, _, _, _, _)
from_iter_loop(h, ns, checks, all_items, index) ==
    IF index = Len(all_items)
    THEN [outcome |-> "ok", nodes |-> ns]
    ELSE LET r == set_at(h, ns, checks, index, all_items[index + 1])
         IN  IF r.outcome = "ok"
             THEN from_iter_loop(h, r.nodes, checks, all_items, index + 1)
             ELSE [outcome |-> r.outcome, nodes |-> r.nodes]

\* MerkleTree::new as a function: the assert, then Nodes::new.
new(leaf_count_arg) ==
    IF is_power_of_two(leaf_count_arg)
    THEN [outcome |-> "ok", nodes |-> Nodes_new(leaf_count_arg)]
    ELSE [outcome |-> "panic", nodes |-> <<>>]

from_iter(all_items, h, checks) ==
    LET mt == new(Len(all_items))
    IN  IF mt.outcome = "ok"
        THEN from_iter_loop(h, mt.nodes, checks, all_items, 0)
        ELSE mt

-----------------------------------------------------------------------------
\* The state machine: one tree, built once, then any calls on it.

NotSet == [set |-> FALSE, item |-> <<>>]

IsSet(item) == [set |-> TRUE, item |-> item]

NoCall == [op |-> "none", outcome |-> "none", index |-> 0, count |-> 0,
           item |-> <<>>, steps |-> 0, proof |-> <<>>, digest |-> <<>>]

\* The item sequences handed to from_iter.
ItemSeqs == UNION {[1..n -> Items] : n \in 0..MaxLeafCount}

Init ==
    /\ status = "none"
    /\ overflow_checks \in BOOLEAN
    /\ hasher = "crc8"
    /\ nodes = <<>>
    /\ assigned = <<>>
    /\ fresh = TRUE
    /\ last = NoCall

\* The status after a call: a call that never returns ends the process.
After(outcome, ok_status) ==
    IF outcome = "diverged" THEN "dead"
    ELSE IF outcome = "ok" THEN "live"
    ELSE ok_status

New(n, h) ==
    /\ status = "none"
    /\ LET r == new(n)
       IN  /\ status' = After(r.outcome, "none")
           /\ nodes' = r.nodes
           /\ assigned' = [k \in 1..leaf_count(r.nodes) |-> NotSet]
           /\ last' = [NoCall EXCEPT !.op = "new", !.outcome = r.outcome, !.count = n]
    /\ hasher' = h
    /\ fresh' = TRUE
    /\ UNCHANGED overflow_checks

FromIter(all_items, h) ==
    /\ status = "none"
    /\ LET r == from_iter(all_items, h, overflow_checks)
       IN  /\ status' = After(r.outcome, "none")
           /\ nodes' = r.nodes
           /\ assigned' = IF r.outcome = "ok"
                          THEN [k \in 1..Len(all_items) |-> IsSet(all_items[k])]
                          ELSE [k \in 1..leaf_count(r.nodes) |-> NotSet]
           /\ last' = [NoCall EXCEPT !.op = "from_iter", !.outcome = r.outcome,
                                     !.count = Len(all_items)]
    /\ hasher' = h
    /\ fresh' = TRUE
    /\ UNCHANGED overflow_checks

SetAt(item_index, item) ==
    /\ status = "live"
    /\ LET r == set_at(hasher, nodes, overflow_checks, item_index, item)
           leaf == item_index >= 0 /\ item_index < leaf_count(nodes)
       IN  /\ status' = After(r.outcome, "live")
           /\ nodes' = r.nodes
           /\ assigned' = IF r.outcome = "ok" /\ leaf
                          THEN [assigned EXCEPT ![item_index + 1] = IsSet(item)]
                          ELSE assigned
           /\ fresh' = IF r.outcome = "ok"
                       THEN fresh /\ leaf /\ ~assigned[item_index + 1].set
                       ELSE fresh
           /\ last' = [NoCall EXCEPT !.op = "set_at", !.outcome = r.outcome,
                                     !.index = item_index,
                                     !.steps = r.steps]
    /\ UNCHANGED <<overflow_checks, hasher>>

Proof(index) ==
    /\ status = "live"
    /\ LET r == proof(nodes, overflow_checks, index)
       IN  /\ status' = After(r.outcome, "live")
           /\ last' = [NoCall EXCEPT !.op = "proof", !.outcome = r.outcome,
                                     !.index = index, !.proof = r.proof]
    /\ UNCHANGED <<overflow_checks, hasher, nodes, assigned, fresh>>

\* verify on the proof just taken, with the tree's hasher.
Verify(item) ==
    /\ status = "live"
    /\ last.op = "proof"
    /\ last.outcome = "ok"
    /\ last' = [last EXCEPT !.op = "verify", !.item = item,
                            !.digest = verify(last.proof, item, hasher)]
    /\ UNCHANGED <<status, overflow_checks, hasher, nodes, assigned, fresh>>

Next ==
    \/ \E n \in 0..MaxLeafCount, h \in Hashers : New(n, h)
    \/ \E all_items \in ItemSeqs, h \in Hashers : FromIter(all_items, h)
    \/ \E item_index \in Indices, item \in Items : SetAt(item_index, item)
    \/ \E index \in Indices : Proof(index)
    \/ \E item \in VerifyItems : Verify(item)

Spec == Init /\ [][Next]_vars

-----------------------------------------------------------------------------
\* Vocabulary of the properties.

LeafCount == leaf_count(nodes)

InRange(index) == index >= 0 /\ index < LeafCount

AllAssigned == LeafCount >= 1 /\ \A k \in 1..LeafCount : assigned[k].set

AssignedItems == [k \in 1..LeafCount |-> assigned[k].item]

PowerOfTwo(n) == \E k \in 0..n : 2 ^ k = n

Log2(n) == CHOOSE k \in 0..n : 2 ^ k = n

\* The position reached from the leaf of item i after j moves to the parent.
PathPosition(i, j) == (i + LeafCount) \div (2 ^ j)

\* i XOR 1
Sibling(p) == IF p % 2 = 0 THEN p + 1 ELSE p - 1

\* The fold of a proof as the specification words it.
RECURSIVE FoldBySide(_, _, _)
FoldBySide(h, candidate, steps) ==
    IF steps = <<>> THEN candidate
    ELSE FoldBySide(h,
                    IF Head(steps).direction = Right
                    THEN Hash(h, candidate \o Head(steps).hash)
                    ELSE Hash(h, Head(steps).hash \o candidate),
                    Tail(steps))

\* The Merkle hash of a sequence of 2^k leaf digests, top down.
RECURSIVE MerkleHash(_, _)
MerkleHash(h, digests) ==
    IF Len(digests) = 1 THEN digests[1]
    ELSE LET half == Len(digests) \div 2
         IN  Hash(h, MerkleHash(h, SubSeq(digests, 1, half))
                     \o MerkleHash(h, SubSeq(digests, half + 1, Len(digests))))

\* Internal position i has an assigned leaf below it.
HasAssignedLeaf(i) ==
    \E k \in 0..(LeafCount - 1), j \in 1..Log2(LeafCount) :
        assigned[k + 1].set /\ PathPosition(k, j) = i

-----------------------------------------------------------------------------
\* C1: in a tree whose leaves have all been assigned, verify on proof(i) and
\* the item of leaf i gives the root, for every leaf i.
C1_RoundTrip ==
    (status = "live" /\ AllAssigned) =>
        \A i \in 0..(LeafCount - 1) :
            verify(proof(nodes, overflow_checks, i).proof, assigned[i + 1].item, hasher)
                = root(nodes)

\* C2: when every leaf has been assigned exactly once by set_at, in whatever
\* order, the root is the root from_iter builds from the same items in index
\* order.
C2_OrderIndependence ==
    (status = "live" /\ fresh /\ AllAssigned) =>
        root(nodes) = root(from_iter(AssignedItems, hasher, overflow_checks).nodes)

C2_Witness ==
    /\ status = "live" /\ fresh /\ AllAssigned
    /\ LeafCount = 4
    /\ last.op = "set_at" /\ last.outcome = "ok" /\ last.index = 0
    /\ assigned[1].item # assigned[2].item
    /\ assigned[3].item # assigned[4].item

\* C3: verify returns the fold that starts from hasher(item) and, per step,
\* hashes candidate-then-sibling for side Right and sibling-then-candidate for
\* side Left.
C3_VerifyFold ==
    last.op = "verify" =>
        last.digest = FoldBySide(hasher, Hash(hasher, last.item), last.proof)

\* C4: proof(i) for a leaf index i returns log2(leafCount) steps, step j
\* holding the digest stored at the sibling of the j-th position of the path,
\* with side Right when that position is even and Left when it is odd.
C4_ProofShape ==
    (last.op = "proof" /\ status = "live" /\ InRange(last.index)) =>
        /\ last.outcome = "ok"
        /\ Len(last.proof) = Log2(LeafCount)
        /\ \A j \in 0..(Log2(LeafCount) - 1) :
            LET p == PathPosition(last.index, j)
            IN  /\ last.proof[j + 1].hash = nodes[Sibling(p) + 1]
                /\ last.proof[j + 1].direction = IF p % 2 = 0 THEN Right ELSE Left

C4_Witness ==
    /\ last.op = "proof" /\ last.outcome = "ok" /\ status = "live"
    /\ LeafCount = 4 /\ AllAssigned
    /\ last.index = 2
    /\ Len(last.proof) = 2
    /\ last.proof[1].direction = Right /\ last.proof[2].direction = Left
    /\ last.proof[1].hash # last.proof[2].hash

\* C5: after completed set_at calls every internal position with an assigned
\* leaf below it holds the hash of left child then right child, every other
\* internal position holds the placeholder, and the root of a fully assigned
\* tree is the Merkle hash of the leaf digests.
C5_InternalNodes ==
    status = "live" =>
        /\ \A i \in 1..(LeafCount - 1) :
            nodes[i + 1] = IF HasAssignedLeaf(i)
                           THEN Hash(hasher, nodes[2 * i + 1] \o nodes[2 * i + 2])
                           ELSE Placeholder
        /\ AllAssigned => root(nodes) = MerkleHash(hasher, leaves(nodes))

\* C6: set_at and proof with a leaf index return, set_at after log2(leafCount)
\* ancestor updates and proof with log2(leafCount) steps, for every leaf count
\* construction accepts.
C6_Terminates ==
    /\ (last.op = "set_at" /\ InRange(last.index)) =>
           (last.outcome = "ok" /\ last.steps = Log2(LeafCount))
    /\ (last.op = "proof" /\ InRange(last.index)) =>
           (last.outcome = "ok" /\ Len(last.proof) = Log2(LeafCount))

\* C7: new fails for 0 and for every count that is not a power of two and
\* succeeds for every power of two with 2*leafCount placeholder slots; from_iter
\* over n items succeeds exactly when new(n) does.
C7_Construction ==
    /\ last.op = "new" =>
        /\ (last.outcome = "ok") <=> PowerOfTwo(last.count)
        /\ last.outcome # "ok" => last.outcome = "panic"
        /\ last.outcome = "ok" =>
            /\ Len(nodes) = 2 * last.count
            /\ \A p \in 1..Len(nodes) : nodes[p] = Placeholder
    /\ last.op = "from_iter" =>
        ((last.outcome = "ok") <=> (new(last.count).outcome = "ok"))

\* C8: set_at and proof with an index that is no leaf index fail, and the
\* failed set_at leaves every digest as it was.
C8_OutOfRangeFails ==
    [][(last'.op \in {"set_at", "proof"}
        /\ ~(last'.index >= 0 /\ last'.index < leaf_count(nodes)))
       => (last'.outcome = "panic" /\ nodes' = nodes)]_vars

\* Everything hashed to build the tree and by either reading of the fold.
RECURSIVE FoldInputs(_, _, _)
FoldInputs(h, candidate, steps) ==
    IF steps = <<>> THEN {}
    ELSE LET a == candidate \o Head(steps).hash
             b == Head(steps).hash \o candidate
         IN  {a, b} \cup FoldInputs(h, Hash(h, a), Tail(steps))
                    \cup FoldInputs(h, Hash(h, b), Tail(steps))

UsedInputs ==
    {assigned[k].item : k \in 1..LeafCount}
    \cup {nodes[2 * i + 1] \o nodes[2 * i + 2] : i \in 1..(LeafCount - 1)}
    \cup {last.item}
    \cup FoldInputs(hasher, Hash(hasher, last.item), last.proof)

InjectiveOn(h, S) == \A a, b \in S : Hash(h, a) = Hash(h, b) => a = b

\* C9: in a fully assigned tree, with a hasher that is injective on the
\* inputs used, verify on proof(i) and an item other than the item of leaf i
\* does not give the root.
C9_TamperDetection ==
    (/\ last.op = "verify" /\ status = "live" /\ AllAssigned
     /\ InRange(last.index)
     /\ last.item # assigned[last.index + 1].item
     /\ InjectiveOn(hasher, UsedInputs))
    => last.digest # root(nodes)

\* C10: position k + leafCount holds the hash of the last item assigned to
\* leaf k, or the placeholder if none was; leaves() yields those leafCount
\* digests in index order and nodes() the digests of positions
\* 1..2*leafCount-1 in position order.
C10_Leaves ==
    status = "live" =>
        /\ \A k \in 0..(LeafCount - 1) :
            LET d == IF assigned[k + 1].set
                     THEN Hash(hasher, assigned[k + 1].item)
                     ELSE Placeholder
            IN  /\ nodes[k + LeafCount + 1] = d
                /\ leaves(nodes)[k + 1] = d
        /\ Len(leaves(nodes)) = LeafCount
        /\ Len(nodes_iter(nodes)) = 2 * LeafCount - 1
        /\ \A p \in 1..(2 * LeafCount - 1) : nodes_iter(nodes)[p] = nodes[p + 1]

C10_Witness ==
    /\ status = "live" /\ LeafCount = 4 /\ ~fresh
    /\ last.op = "set_at" /\ last.outcome = "ok" /\ last.index = 3
    /\ assigned[4].set /\ assigned[1].set /\ ~assigned[2].set
    /\ leaves(nodes)[4] # leaves(nodes)[1]
    /\ leaves(nodes)[2] = Placeholder

\* The leaf position of item k and its ancestors up to the root.
SetAtPath(k) == {PathPosition(k, j) : j \in 0..Log2(LeafCount)}

\* C11: set_at(k, item) with a leaf index k changes no slot other than the
\* leaf position k + leafCount and its ancestors (slot 0 and every slot off
\* the path keep their digest), and the storage keeps its size.
C11_SetAtFrame ==
    [][(last'.op = "set_at" /\ InRange(last'.index))
       => /\ Len(nodes') = Len(nodes)
          /\ \A p \in 0..(Len(nodes) - 1) :
                p \notin SetAtPath(last'.index) => nodes'[p + 1] = nodes[p + 1]]_vars

====
